---- MODULE Spec2Model ----
(***************************************************************************)
(* Model of ws_feeder.py: the coroutine run() and the __main__ handler     *)
(* around it.  One action per stretch of run() between two suspension or   *)
(* failure points.                                                         *)
(*                                                                         *)
(* Units.  Time is counted in ticks (one tick stands for one second).      *)
(* Bid and ask are held in mills (0.001), the mid-price in half-mills      *)
(* (0.0005) so that (bid + ask) / 2 stays an integer, an order's price in  *)
(* cents (0.01, the grain of round(x, 2)) and the jitter in whole basis    *)
(* points.                                                                 *)
(***************************************************************************)
EXTENDS Integers, Sequences, FiniteSets, TLC

\* ------------------------------------------------------------------ bounds
MaxBurst == 2
MaxLimit == 3
MaxDuration == 1
MaxSeed == 1
MaxRate == 1
MaxConnect == 2
MaxWait == 1
MaxClose == 1
MaxPulls == 2
RngMod == 8

\* --------------------------------------------------------------- constants
\* uniform(-8, 8): the jitter's half-width in basis points
JitterBps == 8
\* randint(1, 5)
MinQty == 1
MaxQty == 5
\* round(x, 2): the digits kept after the decimal point
Places == 2
\* jitter_bps / 10000.0: basis points in 1
BpsPerUnit == 10000
\* one cent (10^-2, the grain of round(x, 2)) in half-mills
HalfMillsPerCent == 20

\* An option that was not given on the command line (Python's None).  The
\* numeric options drawn below are all >= 0.
None == -1

\* Python truthiness of an optional number: None and 0 are both false.
Truthy(x) == x # None /\ x # 0

Opt(S) == {None} \cup S

\* The feed's well-formed messages, as (b, a) in mills: 99.99/100.01 and
\* 0.001/0.001.
Updates ==
  { [kind |-> "update", b |-> 99990, a |-> 100010],
    [kind |-> "update", b |-> 1, a |-> 1] }

\* Messages on which json.loads, data["b"], data["a"] or float() raises.
Malformed ==
  { [kind |-> "missing_b"], [kind |-> "missing_a"], [kind |-> "non_numeric"] }

\* ws.recv() raising ConnectionClosed instead of returning a message.
Closed == [kind |-> "closed"]

Arrivals == Updates \cup Malformed \cup {Closed}

Configs ==
  [ burst : 0..MaxBurst,
    limit : Opt(0..MaxLimit),
    duration : Opt(0..MaxDuration),
    seed : Opt(0..MaxSeed),
    rate : {0, MaxRate} ]

VARIABLES
  cfg,        \* the arguments of run()
  pc,         \* where run() (or __main__) stands
  rng,        \* state of the module-level generator of `random`
  start,      \* time.time() at line 66
  sent,       \* orders written so far
  now,        \* the wall clock
  ws,         \* the subscription: "none", "open", "closed"
  mid,        \* mid-price of the update being fanned out, in half-mills
  i,          \* orders of the current burst already written
  out,        \* the lines sys.stdout.write accepted, in order
  pulled,     \* messages ws.recv() returned
  exc,        \* the exception travelling out of run(), "none" if none
  outcome,    \* how the process ends: "running", "ok", "error"
  sinkFault,  \* where BrokenPipeError was raised, "none" if nowhere
  tape,       \* what ws.recv() produced, in order
  lastCheck,  \* when the wait now under way began: the start stamp, then
              \* each stop check that let the loop go on
  brokeAt,    \* time of the stop check that broke the loop, None before
  exitAt,     \* time at which EXIT was written, None before
  run,        \* 1: a first run; 2: its replay
  prev        \* out, sinkFault and ws at the end of the first run

vars ==
  << cfg, pc, rng, start, sent, now, ws, mid, i, out, pulled, exc, outcome,
     sinkFault, tape, lastCheck, brokeAt, exitAt, run, prev >>

\* ---------------------------------------------------------------- helpers
\* The generator after one call of random(), uniform() or randint(): each
\* call advances the state once and reads its result off the new state,
\* taken as the fraction state / RngMod of [0, 1).
Advance(s) == (5 * s + 3) % RngMod

\* Mutant of SeedStates: the seed is never applied.
SeedStatesUnseeded(seed) == 0..(RngMod - 1)

\* random.seed(seed) fixes the state; without it the state is whatever the
\* import of `random` drew from the operating system.
SeedStates(seed) ==
  IF seed # None THEN {seed % RngMod} ELSE 0..(RngMod - 1)

\* "BUY" if random.random() < 0.5 else "SELL"
SideOf(u) == IF 2 * u < RngMod THEN "BUY" ELSE "SELL"

\* Mutant of JitterOf: the jitter taken ten times too wide.
JitterOfWide(u) == 10 * ((2 * JitterBps * u) \div RngMod - JitterBps)

\* random.uniform(-8, 8) = -8 + 16 * random(), in whole basis points
JitterOf(u) == (2 * JitterBps * u) \div RngMod - JitterBps

\* random.randint(1, 5)
QtyOf(u) == MinQty + ((MaxQty - MinQty + 1) * u) \div RngMod

\* n / d rounded to the nearest integer, ties to even (Python's round), for
\* n >= 0 and d > 0.
RoundHalfEven(n, d) ==
  LET q == n \div d
      r == n % d
  IN  IF 2 * r < d THEN q
      ELSE IF 2 * r > d THEN q + 1
      ELSE IF q % 2 = 0 THEN q ELSE q + 1

\* round(mid * (1 + jitter_bps / 10000.0), 2) in cents, for mid in
\* half-mills and jitter_bps in basis points.  The quotient is exact here;
\* the float product of the code is within one unit in the last place of it,
\* which moves the rounded price only when the product lies on a tie.
PriceOf(m, j) ==
  RoundHalfEven(m * (BpsPerUnit + j), BpsPerUnit * HalfMillsPerCent)

\* f"{price}" for a float holding a whole number of cents: the integer part
\* and the fractional digits of the shortest decimal that reads back as the
\* same float ("100.09", "100.1", "100.0").
FormatPrice(c) ==
  [ int |-> c \div 100,
    frac |-> IF c % 10 = 0 THEN << (c % 100) \div 10 >>
             ELSE << (c % 100) \div 10, c % 10 >> ]

\* The order line of f"{side} {price} {qty}\n"; mid names the mid-price
\* the order was made from.
OrderLine(side, c, qty, m) ==
  [ kind |-> "ORDER", side |-> side, price |-> c, text |-> FormatPrice(c),
    qty |-> qty, mid |-> m ]

ExitLine == [kind |-> "EXIT"]

\* Mutant of DurationReached: > for >=.
DurationReachedLate(d, t, s) == Truthy(d) /\ t - s > d

\* if duration and (time.time() - start) >= duration
DurationReached(d, t, s) == Truthy(d) /\ t - s >= d

\* Mutant of CountReached: updates counted for orders (sent += 1 after the
\* burst loop, not in it).
CountReachedPerUpdate(l, n) == Truthy(l) /\ n >= l * cfg.burst

\* Mutant of CountReached: > for >=.
CountReachedLate(l, n) == Truthy(l) /\ n > l

\* if limit and sent >= limit
CountReached(l, n) == Truthy(l) /\ n >= l

\* Mutant of Absorbed: a bare except around asyncio.run.
AbsorbedAll(e) == TRUE

\* Mutant of Absorbed: __main__ without its except clause.
AbsorbedNever(e) == FALSE

\* except BrokenPipeError: pass   (around asyncio.run)
Absorbed(e) == e = "BrokenPipeError"

\* ------------------------------------------------------------------- Init
Init ==
  /\ cfg \in Configs
  /\ pc = "start"
  /\ rng = 0
  /\ start = 0
  /\ sent = 0
  /\ now = 0
  /\ ws = "none"
  /\ mid = 0
  /\ i = 0
  /\ out = << >>
  /\ pulled = 0
  /\ exc = "none"
  /\ outcome = "running"
  /\ sinkFault = "none"
  /\ tape = << >>
  /\ lastCheck = 0
  /\ brokeAt = None
  /\ exitAt = None
  /\ run = 1
  /\ prev = [out |-> << >>, sinkFault |-> "none", ws |-> "none"]

replayVars == << run, prev >>

\* ---------------------------------------------------------------- actions
\* Lines 62-70: seed the generator, stamp start, open the subscription.
Connect ==
  /\ pc = "start"
  /\ rng' \in SeedStates(cfg.seed)
  /\ start' = now
  /\ sent' = 0
  /\ \E took \in {0, MaxConnect}, ok \in BOOLEAN :
       /\ now' = now + took
       /\ lastCheck' = now
       /\ IF ok
            THEN /\ ws' = "open"
                 /\ pc' = "check"
                 /\ exc' = exc
            ELSE /\ ws' = ws
                 /\ pc' = "raised"
                 /\ exc' = "ConnectionError"
  /\ UNCHANGED << cfg, mid, i, out, pulled, outcome, sinkFault, tape,
                  brokeAt, exitAt, replayVars >>

\* Mutant of Check: the sentinel written where the loop breaks, and again
\* after the loop.
CheckWritesExit ==
  /\ pc = "check"
  /\ IF DurationReached(cfg.duration, now, start)
          \/ CountReached(cfg.limit, sent)
       THEN /\ pc' = "aexit"
            /\ brokeAt' = now
            /\ lastCheck' = lastCheck
            /\ out' = Append(out, ExitLine)
       ELSE /\ pc' = "recv"
            /\ brokeAt' = brokeAt
            /\ lastCheck' = now
            /\ out' = out
  /\ UNCHANGED << cfg, rng, start, sent, now, ws, mid, i, pulled, exc,
                  outcome, sinkFault, tape, exitAt, replayVars >>

\* Lines 71-76: the stop conditions at the top of the loop.
Check ==
  /\ pc = "check"
  /\ IF DurationReached(cfg.duration, now, start)
       THEN /\ pc' = "aexit"
            /\ brokeAt' = now
            /\ lastCheck' = lastCheck
       ELSE IF CountReached(cfg.limit, sent)
         THEN /\ pc' = "aexit"
              /\ brokeAt' = now
              /\ lastCheck' = lastCheck
         ELSE /\ pc' = "recv"
              /\ brokeAt' = brokeAt
              /\ lastCheck' = now
  /\ UNCHANGED << cfg, rng, start, sent, now, ws, mid, i, out, pulled, exc,
                  outcome, sinkFault, tape, exitAt, replayVars >>

\* What ws.recv() may produce next: anything on a first run, the first
\* run's messages again on its replay.
NextArrivals ==
  IF run = 2 /\ pulled < Len(tape) THEN {tape[pulled + 1]} ELSE Arrivals

\* Lines 79-84: wait for a message, decode it, take the mid-price.
Recv ==
  /\ pc = "recv"
  /\ pulled < MaxPulls
  /\ \E took \in {0, MaxWait}, m \in NextArrivals :
       /\ now' = now + took
       /\ tape' = IF pulled < Len(tape) THEN tape ELSE Append(tape, m)
       /\ IF m \in Updates
            THEN /\ pulled' = pulled + 1
                 /\ mid' = m.b + m.a
                 /\ i' = 0
                 /\ pc' = IF i' < cfg.burst THEN "burst" ELSE "flush"
                 /\ exc' = exc
            ELSE IF m \in Malformed
              THEN /\ pulled' = pulled + 1
                   /\ pc' = "aexit"
                   /\ exc' = "DecodeError"
                   /\ UNCHANGED << mid, i >>
              ELSE /\ pc' = "aexit"
                   /\ exc' = "ConnectionClosed"
                   /\ UNCHANGED << pulled, mid, i >>
  /\ UNCHANGED << cfg, rng, start, sent, ws, out, outcome, sinkFault,
                  lastCheck, brokeAt, exitAt, replayVars >>

\* Mutant of EmitOrder: the jitter drawn first, then the side, then the
\* quantity.
EmitOrderJitterFirst ==
  /\ pc = "burst"
  /\ LET u1 == Advance(rng)
         u2 == Advance(u1)
         u3 == Advance(u2)
         jitter_bps == JitterOf(u1)
         price == PriceOf(mid, jitter_bps)
         side == SideOf(u2)
         qty == QtyOf(u3)
     IN  /\ rng' = u3
         /\ \E ok \in BOOLEAN :
              IF ok
                THEN /\ out' = Append(out, OrderLine(side, price, qty, mid))
                     /\ sent' = sent + 1
                     /\ i' = i + 1
                     /\ pc' = IF i' < cfg.burst THEN "burst" ELSE "flush"
                     /\ UNCHANGED << exc, sinkFault >>
                ELSE /\ exc' = "BrokenPipeError"
                     /\ sinkFault' = "order_write"
                     /\ pc' = "aexit"
                     /\ UNCHANGED << out, sent, i >>
  /\ UNCHANGED << cfg, start, now, ws, mid, pulled, outcome, tape,
                  lastCheck, brokeAt, exitAt, replayVars >>

\* Mutant of EmitOrder: the count limit also checked after each order, the
\* burst cut short when it is reached.
EmitOrderStopsAtLimit ==
  /\ pc = "burst"
  /\ LET u1 == Advance(rng)
         u2 == Advance(u1)
         u3 == Advance(u2)
         side == SideOf(u1)
         jitter_bps == JitterOf(u2)
         price == PriceOf(mid, jitter_bps)
         qty == QtyOf(u3)
     IN  /\ rng' = u3
         /\ \E ok \in BOOLEAN :
              IF ok
                THEN /\ out' = Append(out, OrderLine(side, price, qty, mid))
                     /\ sent' = sent + 1
                     /\ i' = i + 1
                     /\ pc' = IF i' < cfg.burst /\ ~CountReached(cfg.limit, sent')
                                THEN "burst" ELSE "flush"
                     /\ UNCHANGED << exc, sinkFault >>
                ELSE /\ exc' = "BrokenPipeError"
                     /\ sinkFault' = "order_write"
                     /\ pc' = "aexit"
                     /\ UNCHANGED << out, sent, i >>
  /\ UNCHANGED << cfg, start, now, ws, mid, pulled, outcome, tape,
                  lastCheck, brokeAt, exitAt, replayVars >>

\* Lines 87-96: one pass of the burst loop.
EmitOrder ==
  /\ pc = "burst"
  /\ LET u1 == Advance(rng)
         u2 == Advance(u1)
         u3 == Advance(u2)
         side == SideOf(u1)
         jitter_bps == JitterOf(u2)
         price == PriceOf(mid, jitter_bps)
         qty == QtyOf(u3)
     IN  /\ rng' = u3
         /\ \E ok \in BOOLEAN :
              IF ok
                THEN /\ out' = Append(out, OrderLine(side, price, qty, mid))
                     /\ sent' = sent + 1
                     /\ i' = i + 1
                     /\ pc' = IF i' < cfg.burst THEN "burst" ELSE "flush"
                     /\ UNCHANGED << exc, sinkFault >>
                ELSE /\ exc' = "BrokenPipeError"
                     /\ sinkFault' = "order_write"
                     /\ pc' = "aexit"
                     /\ UNCHANGED << out, sent, i >>
  /\ UNCHANGED << cfg, start, now, ws, mid, pulled, outcome, tape,
                  lastCheck, brokeAt, exitAt, replayVars >>

\* Mutant of FlushBurst: the flush wrapped in try/except BrokenPipeError:
\* pass, as the final flush is.
FlushBurstSwallow ==
  /\ pc = "flush"
  /\ \E ok \in BOOLEAN :
       sinkFault' = IF ok THEN sinkFault ELSE "burst_flush"
  /\ pc' = "sleep"
  /\ UNCHANGED << cfg, rng, start, sent, now, ws, mid, i, out, pulled, exc,
                  outcome, tape, lastCheck, brokeAt, exitAt, replayVars >>

\* Line 98: flush after the burst.
FlushBurst ==
  /\ pc = "flush"
  /\ \E ok \in BOOLEAN :
       IF ok
         THEN /\ pc' = "sleep"
              /\ UNCHANGED << exc, sinkFault >>
         ELSE /\ exc' = "BrokenPipeError"
              /\ sinkFault' = "burst_flush"
              /\ pc' = "aexit"
  /\ UNCHANGED << cfg, rng, start, sent, now, ws, mid, i, out, pulled,
                  outcome, tape, lastCheck, brokeAt, exitAt, replayVars >>

\* Mutant of Sleep: the delay cut off when the duration limit expires in it,
\* the loop left without a stop check.
SleepInterrupted ==
  /\ pc = "sleep"
  /\ now' = now + cfg.rate
  /\ pc' = IF DurationReached(cfg.duration, now', start)
             THEN "aexit" ELSE "check"
  /\ UNCHANGED << cfg, rng, start, sent, ws, mid, i, out, pulled, exc,
                  outcome, sinkFault, tape, lastCheck, brokeAt, exitAt,
                  replayVars >>

\* Mutant of Sleep: asyncio.sleep(rate) called but not awaited.
SleepSkipped ==
  /\ pc = "sleep"
  /\ now' = now
  /\ pc' = "check"
  /\ UNCHANGED << cfg, rng, start, sent, ws, mid, i, out, pulled, exc,
                  outcome, sinkFault, tape, lastCheck, brokeAt, exitAt,
                  replayVars >>

\* Line 101: the delay between bursts.
Sleep ==
  /\ pc = "sleep"
  /\ now' = now + cfg.rate
  /\ pc' = "check"
  /\ UNCHANGED << cfg, rng, start, sent, ws, mid, i, out, pulled, exc,
                  outcome, sinkFault, tape, lastCheck, brokeAt, exitAt,
                  replayVars >>

\* Mutant of CloseWs: the subscription opened without `async with` and
\* never closed.
CloseWsLeak ==
  /\ pc = "aexit"
  /\ ws' = ws
  /\ \E took \in {0, MaxClose} : now' = now + took
  /\ pc' = IF exc = "none" THEN "exit_write" ELSE "raised"
  /\ UNCHANGED << cfg, rng, start, sent, mid, i, out, pulled, exc, outcome,
                  sinkFault, tape, lastCheck, brokeAt, exitAt, replayVars >>

\* Line 70, leaving the `async with` block by break or by exception: the
\* subscription is closed, then control goes on to line 104 or the
\* exception goes on to the caller.
CloseWs ==
  /\ pc = "aexit"
  /\ ws' = "closed"
  /\ \E took \in {0, MaxClose} : now' = now + took
  /\ pc' = IF exc = "none" THEN "exit_write" ELSE "raised"
  /\ UNCHANGED << cfg, rng, start, sent, mid, i, out, pulled, exc, outcome,
                  sinkFault, tape, lastCheck, brokeAt, exitAt, replayVars >>

\* Line 104: the sentinel, written outside any try.
WriteExit ==
  /\ pc = "exit_write"
  /\ \E ok \in BOOLEAN :
       IF ok
         THEN /\ out' = Append(out, ExitLine)
              /\ exitAt' = now
              /\ pc' = "exit_flush"
              /\ UNCHANGED << exc, sinkFault >>
         ELSE /\ exc' = "BrokenPipeError"
              /\ sinkFault' = "exit_write"
              /\ pc' = "raised"
              /\ UNCHANGED << out, exitAt >>
  /\ UNCHANGED << cfg, rng, start, sent, now, ws, mid, i, pulled, outcome,
                  tape, lastCheck, brokeAt, replayVars >>

\* Lines 105-109: the final flush, its BrokenPipeError passed over.
FlushExit ==
  /\ pc = "exit_flush"
  /\ \E ok \in BOOLEAN :
       sinkFault' = IF ok THEN sinkFault ELSE "exit_flush"
  /\ pc' = "returned"
  /\ UNCHANGED << cfg, rng, start, sent, now, ws, mid, i, out, pulled, exc,
                  outcome, tape, lastCheck, brokeAt, exitAt, replayVars >>

\* Lines 122-126: asyncio.run(run(...)) returns or raises.
Main ==
  /\ pc \in {"returned", "raised"}
  /\ outcome' = IF pc = "returned" \/ Absorbed(exc) THEN "ok" ELSE "error"
  /\ pc' = "done"
  /\ UNCHANGED << cfg, rng, start, sent, now, ws, mid, i, out, pulled, exc,
                  sinkFault, tape, lastCheck, brokeAt, exitAt, replayVars >>

\* Lines 122-123 a second time: the same arguments, the same messages.  Only
\* seeded runs without a duration limit that got their subscription are
\* replayed.
Replay ==
  /\ pc = "done"
  /\ run = 1
  /\ cfg.seed # None
  /\ cfg.duration = None
  /\ ws # "none"
  /\ run' = 2
  /\ prev' = [out |-> out, sinkFault |-> sinkFault, ws |-> ws]
  /\ pc' = "start"
  /\ rng' = 0
  /\ start' = 0
  /\ sent' = 0
  /\ now' = 0
  /\ ws' = "none"
  /\ mid' = 0
  /\ i' = 0
  /\ out' = << >>
  /\ pulled' = 0
  /\ exc' = "none"
  /\ outcome' = "running"
  /\ sinkFault' = "none"
  /\ lastCheck' = 0
  /\ brokeAt' = None
  /\ exitAt' = None
  /\ UNCHANGED << cfg, tape >>

Next ==
  \/ Connect
  \/ Check
  \/ Recv
  \/ EmitOrder
  \/ FlushBurst
  \/ Sleep
  \/ CloseWs
  \/ WriteExit
  \/ FlushExit
  \/ Main

Spec == Init /\ [][Next]_vars

\* A run followed by its replay.
NextReplay ==
  \/ Next
  \/ Replay

SpecReplay == Init /\ [][NextReplay]_vars

\* A step in which nothing fails: the subscription opens, the feed delivers
\* a well-formed update, the sink takes what is written.
GoodStep == exc' = "none" /\ sinkFault' = "none"

NextLive ==
  \/ Connect /\ GoodStep
  \/ Check /\ GoodStep
  \/ Recv /\ GoodStep
  \/ EmitOrder /\ GoodStep
  \/ FlushBurst /\ GoodStep
  \/ Sleep /\ GoodStep
  \/ CloseWs /\ GoodStep
  \/ WriteExit /\ GoodStep
  \/ FlushExit /\ GoodStep
  \/ Main /\ GoodStep

\* A run in which nothing fails and every wait comes to an end.
SpecLive == Init /\ [][NextLive]_vars /\ WF_vars(NextLive)

\* ----------------------------------------------------------------- claims
IsOrder(L) == L.kind = "ORDER"

IsExit(L) == L.kind = "EXIT"

Orders(s) == {k \in 1..Len(s) : IsOrder(s[k])}

Exits(s) == {k \in 1..Len(s) : IsExit(s[k])}

\* s ends with its only EXIT line.
EndsWithOneExit(s) ==
  /\ Len(s) > 0
  /\ Exits(s) = {Len(s)}

\* The sentinel was written, or its write was tried and raised.
ExitAttempted == Exits(out) # {} \/ sinkFault = "exit_write"

IsPrefix(s, t) ==
  /\ Len(s) <= Len(t)
  /\ \A k \in 1..Len(s) : s[k] = t[k]

\* The least multiple of b that is >= n, for b >= 1: b * ceil(n / b).
CeilMultiple(n, b) == b * ((n + b - 1) \div b)

\* The run went through to the end with no exception and no sink failure.
Clean == exc = "none" /\ sinkFault = "none"

OrderFaults == {"order_write", "burst_flush"}

ExitFaults == {"exit_write", "exit_flush"}

\* C1: a run that got its subscription and whose sink accepts every write
\* ends its output with exactly one EXIT line, also when it ends because
\* ws.recv() reported the feed closed.
C1_ExitAlsoOnFeedClose ==
  ( /\ pc = "done"
    /\ ws # "none"
    /\ sinkFault = "none"
    /\ exc \in {"none", "ConnectionClosed"} )
  => EndsWithOneExit(out)

\* C2 as stated: with a count limit N and no duration limit, a run fed
\* well-formed updates writes exactly N order lines and then EXIT, for
\* every burst size.
C2_ExactlyLimitOrders ==
  ( /\ pc = "done"
    /\ Clean
    /\ cfg.limit # None
    /\ cfg.duration = None )
  => /\ EndsWithOneExit(out)
     /\ Cardinality(Orders(out)) = cfg.limit

\* C2 amended: with a count limit N >= 1, a burst size B >= 1 and no
\* duration limit, a run fed well-formed updates writes exactly
\* B * ceil(N / B) order lines (N of them when B divides N) and then EXIT.
C2_LimitRoundedUpToBurst ==
  ( /\ pc = "done"
    /\ Clean
    /\ cfg.limit # None
    /\ cfg.limit >= 1
    /\ cfg.burst >= 1
    /\ cfg.duration = None )
  => /\ EndsWithOneExit(out)
     /\ Orders(out) = 1..(Len(out) - 1)
     /\ Cardinality(Orders(out)) = CeilMultiple(cfg.limit, cfg.burst)

\* The count limit overshot: burst 2, limit 1, two order lines and EXIT.
C2_Witness ==
  /\ pc = "done"
  /\ Clean
  /\ cfg.limit = 1
  /\ cfg.burst = 2
  /\ cfg.duration = None
  /\ Len(out) = 3

\* C3: EXIT is written at most once and is the last line in every state,
\* and once it is written no line is written and no message is pulled.
C3_ExitIsFinal ==
  /\ [](Exits(out) \subseteq {Len(out)})
  /\ [][Exits(out) # {} => (out' = out /\ pulled' = pulled /\ tape' = tape)]_vars

\* EXIT written after at least one order line, and the run over.
C3_Witness ==
  /\ pc = "done"
  /\ Len(out) >= 2
  /\ Exits(out) = {Len(out)}

\* C4: a malformed message ends the run with the decode error surfacing,
\* and the sentinel is still written (or its write tried) on the way out.
C4_ExitAttemptedOnDecodeError ==
  (pc = "done" /\ exc = "DecodeError")
  => (outcome = "error" /\ ExitAttempted)

\* C5 as stated: a BrokenPipeError on an order line does not end the run;
\* the run goes on to a stop condition, closes the subscription and
\* attempts the sentinel.
C5_OrderFaultSwallowed ==
  (pc = "done" /\ sinkFault \in OrderFaults)
  => (ws = "closed" /\ ExitAttempted)

\* C5 amended: a BrokenPipeError raised while an order line is written or
\* flushed ends the run at once: no further message is pulled and no
\* further line written, the subscription is closed, the sentinel is not
\* attempted, and the error is absorbed at the top level only.
C5_OrderFaultEndsRun ==
  sinkFault \in OrderFaults
  => /\ pc \in {"aexit", "raised", "done"}
     /\ exc = "BrokenPipeError"
     /\ ~ExitAttempted
     /\ pc \in {"raised", "done"} => ws = "closed"
     /\ pc = "done" => outcome = "ok"

\* A burst's flush failed after its orders were written, and the run is over.
C5_Witness ==
  /\ pc = "done"
  /\ sinkFault = "burst_flush"
  /\ Len(out) >= 1
  /\ outcome = "ok"

\* C6: a BrokenPipeError on the sentinel, in its write or in the flush
\* after it, surfaces no error: the process ends normally.
C6_ExitFaultSwallowed ==
  sinkFault \in ExitFaults
  => /\ outcome # "error"
     /\ pc = "done" => outcome = "ok"
     /\ sinkFault = "exit_flush" => (exc = "none" /\ Exits(out) # {})

\* The sentinel's write raised, and the process ended normally.
C6_Witness ==
  /\ pc = "done"
  /\ sinkFault = "exit_write"
  /\ outcome = "ok"

\* C7: a seeded run without duration limit and its replay (same seed, burst
\* and limit, same messages) write the same lines: at every moment one
\* output is a prefix of the other, and they are equal once the replay is
\* over, both runs having had their subscription and a sink that accepted
\* every write.
C7_SameSeedSameOutput ==
  (run = 2 /\ cfg.seed # None /\ cfg.duration = None)
  => /\ IsPrefix(out, prev.out) \/ IsPrefix(prev.out, out)
     /\ ( /\ pc = "done"
          /\ ws # "none"
          /\ prev.ws # "none"
          /\ sinkFault = "none"
          /\ prev.sinkFault = "none" )
        => out = prev.out

\* A replay that wrote at least two order lines and EXIT, as the first run.
C7_Witness ==
  /\ run = 2
  /\ cfg.seed # None
  /\ pc = "done"
  /\ sinkFault = "none"
  /\ prev.sinkFault = "none"
  /\ Len(out) >= 3
  /\ out = prev.out

\* What C8 says of one order line, but for the sign of the price: side, the
\* quantity, and the price as the rounded mid-price moved by at most 8 bps
\* (rounding is monotone, so the price lies between the two extreme ones).
WellFormedOrder(L) ==
  /\ L.side \in {"BUY", "SELL"}
  /\ L.qty \in MinQty..MaxQty
  /\ PriceOf(L.mid, -JitterBps) <= L.price
  /\ L.price <= PriceOf(L.mid, JitterBps)

\* C8 as stated: every order line is well formed and has a positive price
\* (every update of the model has a positive bid and a positive ask).
C8_OrdersWellFormedPositive ==
  \A k \in Orders(out) :
    /\ WellFormedOrder(out[k])
    /\ out[k].price > 0

\* C8 amended: every order line has side BUY or SELL, a quantity in 1..5 and
\* as price the mid-price moved by at most 8 bps and rounded to 2 decimal
\* places; the price is never negative when bid and ask are positive, and
\* it is positive whenever the mid-price is at least 0.01.
C8_OrdersWellFormed ==
  \A k \in Orders(out) :
    /\ WellFormedOrder(out[k])
    /\ out[k].price >= 0
    /\ out[k].mid >= HalfMillsPerCent => out[k].price > 0

\* An order made from a sub-cent mid-price, priced 0.00, after an order made
\* from the mid-price 100.00.
C8_Witness ==
  \E k, n \in Orders(out) :
    /\ out[k].mid = 200000
    /\ out[k].price > 0
    /\ out[n].mid < HalfMillsPerCent
    /\ out[n].price = 0

\* C9: every order line prints its price with exactly 2 fractional digits.
C9_TwoFractionalDigits ==
  \A k \in Orders(out) : Len(out[k].text.frac) = Places

\* The conditions of C10: a duration limit, no count limit, no exception,
\* and the sentinel written.
DurationRun ==
  /\ exitAt # None
  /\ cfg.duration # None
  /\ cfg.limit = None
  /\ exc = "none"

\* The burst cycle that ended at the final stop check, 0 if there was none.
LastCycle == IF pulled > 0 THEN brokeAt - lastCheck ELSE 0

\* C10 as stated: with a duration limit D and no count limit, EXIT is
\* written no earlier than D after start and no later than D plus one burst
\* cycle after start.
C10_ExitWithinOneCycle ==
  DurationRun
  => /\ exitAt - start >= cfg.duration
     /\ exitAt - start <= cfg.duration + LastCycle

\* C10 amended: with a duration limit D >= 1 and no count limit, EXIT is
\* written no earlier than D after start, and earlier than D plus the wait
\* that ended at the final stop check (the opening of the subscription if
\* no update was consumed, one burst cycle otherwise) plus the time the
\* subscription took to close.
C10_ExitWithinLastWaitAndClose ==
  DurationRun
  => /\ exitAt - start >= cfg.duration
     /\ brokeAt - start >= cfg.duration
     /\ exitAt - start < cfg.duration + (brokeAt - lastCheck) + (exitAt - brokeAt)

\* EXIT written after one burst cycle that began before the limit and ended
\* after it.
C10_Witness ==
  /\ DurationRun
  /\ pulled = 1
  /\ lastCheck - start < cfg.duration
  /\ brokeAt - start > cfg.duration

\* C11: when the subscription cannot be opened the run goes no further: no
\* message is pulled, no line is written, and the error reaches the top
\* level, which does not absorb it.
C11_ConnectErrorAborts ==
  exc = "ConnectionError"
  => /\ ws = "none"
     /\ pulled = 0
     /\ tape = << >>
     /\ out = << >>
     /\ pc \in {"raised", "done"}
     /\ pc = "done" => outcome = "error"

\* The connection failed and the process ended with the error.
C11_Witness ==
  /\ pc = "done"
  /\ exc = "ConnectionError"
  /\ outcome = "error"

\* The mid-price, in half-mills, of the update that order line k of a run
\* with burst size b was made from: the ((k - 1) div b + 1)-th message.
MidOfOrder(k, b) ==
  LET m == tape[(k - 1) \div b + 1] IN m.b + m.a

\* Every line written so far is an order line, made from the messages in the
\* order of their arrival, burst lines each.
InFeedOrder ==
  /\ Len(out) = sent
  /\ \A k \in 1..Len(out) :
       /\ IsOrder(out[k])
       /\ out[k].mid = MidOfOrder(k, cfg.burst)

\* The loop was left by one of its two stop checks.
Broke == brokeAt # None

\* C12: the stop conditions are looked at between bursts only: at every stop
\* check, and after the check that broke the loop, the orders sent are
\* burst times the updates consumed, every update having given burst
\* consecutive order lines in the order of arrival; a burst under way has
\* its lines after those of all earlier updates.
C12_StopChecksBetweenBursts ==
  /\ (pc = "check" \/ Broke) => sent = cfg.burst * pulled
  /\ pc \in {"check", "recv", "burst", "flush", "sleep", "aexit"} => InFeedOrder
  /\ pc = "burst" => sent = cfg.burst * (pulled - 1) + i

\* A stop check after two bursts of two orders.
C12_Witness ==
  /\ pc = "check"
  /\ cfg.burst = 2
  /\ pulled = 2
  /\ sent = 4
  /\ tape[1] # tape[2]

\* The loop was left because the count limit was reached, the duration
\* limit not being reached at that check.
BrokeOnCount ==
  /\ Broke
  /\ ~DurationReached(cfg.duration, brokeAt, start)

\* C13: with a count limit N >= 1 and a burst size B >= 1, never more than
\* N + B - 1 order lines are written, and at least N when the run stops
\* because of the count limit.
C13_OvershootBelowBurst ==
  (cfg.limit # None /\ cfg.limit >= 1 /\ cfg.burst >= 1)
  => /\ sent <= cfg.limit + cfg.burst - 1
     /\ Cardinality(Orders(out)) <= cfg.limit + cfg.burst - 1
     /\ BrokeOnCount => Cardinality(Orders(out)) >= cfg.limit

\* Limit 3, burst 2: the run stopped on the count limit with 4 order lines.
C13_Witness ==
  /\ pc = "done"
  /\ BrokeOnCount
  /\ cfg.limit = 3
  /\ cfg.burst = 2
  /\ Cardinality(Orders(out)) = 4

\* C14: a limit of 0 is a limit: with a count limit of 0, or a duration
\* limit of 0, the first stop check breaks the loop, no message is pulled
\* and no order line is written.
C14_ZeroLimitHonoured ==
  (cfg.limit = 0 \/ cfg.duration = 0)
  => /\ pc # "recv"
     /\ pulled = 0
     /\ Orders(out) = {}

\* The generator n draws after state s.
RECURSIVE AdvanceN(_, _)
AdvanceN(s, n) == IF n = 0 THEN s ELSE AdvanceN(Advance(s), n - 1)

\* The generator's state right after random.seed(cfg.seed), for a seeded run.
Seeded == CHOOSE s \in SeedStates(cfg.seed) : TRUE

\* In a seeded run the generator has made exactly three draws for each order
\* written, and none else (the draws of an order whose write failed aside).
ThreeDrawsPerOrder ==
  (pc # "start" /\ sinkFault # "order_write") => rng = AdvanceN(Seeded, 3 * sent)

\* C15 as stated: for every order the draws are made in the order jitter,
\* side, quantity, with no other draw between them or between orders.
C15_JitterSideQty ==
  (run = 1 /\ cfg.seed # None)
  => /\ ThreeDrawsPerOrder
     /\ \A k \in Orders(out) :
          LET s0 == AdvanceN(Seeded, 3 * (k - 1))
          IN  /\ out[k].price = PriceOf(out[k].mid, JitterOf(AdvanceN(s0, 1)))
              /\ out[k].side = SideOf(AdvanceN(s0, 2))
              /\ out[k].qty = QtyOf(AdvanceN(s0, 3))

\* C15 amended: for every order the draws are made in the order side,
\* jitter, quantity, with no other draw between them or between orders.
C15_SideJitterQty ==
  (run = 1 /\ cfg.seed # None)
  => /\ ThreeDrawsPerOrder
     /\ \A k \in Orders(out) :
          LET s0 == AdvanceN(Seeded, 3 * (k - 1))
          IN  /\ out[k].side = SideOf(AdvanceN(s0, 1))
              /\ out[k].price = PriceOf(out[k].mid, JitterOf(AdvanceN(s0, 2)))
              /\ out[k].qty = QtyOf(AdvanceN(s0, 3))

\* A seeded run that wrote four order lines, nine draws behind the last one.
C15_Witness ==
  /\ cfg.seed # None
  /\ pc = "done"
  /\ Cardinality(Orders(out)) = 4
  /\ out[1].mid > HalfMillsPerCent
  /\ out[4].mid > HalfMillsPerCent

\* C16: whatever way the loop is left, the subscription is closed before
\* control goes on: it is not open once run() is past the `async with`
\* block, and the sentinel is written, and flushed, with it closed.
C16_ClosedBeforeExit ==
  /\ pc \in {"exit_write", "exit_flush", "returned", "raised", "done"}
       => ws # "open"
  /\ (Broke \/ exc \in {"ConnectionClosed", "DecodeError"}
        \/ sinkFault \in OrderFaults)
       => (pc = "aexit" \/ ws = "closed")
  /\ ExitAttempted => ws = "closed"

\* The sentinel written after two bursts, the subscription closed.
C16_Witness ==
  /\ pc = "exit_flush"
  /\ ws = "closed"
  /\ pulled = 2
  /\ Exits(out) # {}

\* Inside the loop, past the stop checks.
InLoopBody == {"recv", "burst", "flush", "sleep"}

\* C17: a stop condition ends the run at a stop check only.  While the run
\* waits for a message, writes a burst or sleeps, it has not stopped, even
\* with the duration limit expired; the loop is left from there by an
\* exception only; an update received goes on to its burst; and when a stop
\* check breaks the loop every update consumed has had its full burst.
C17_StopOnlyAtCheck ==
  /\ [](pc \in InLoopBody => (~Broke /\ ws = "open" /\ Exits(out) = {}))
  /\ [](Broke => sent = cfg.burst * pulled)
  /\ [][(~Broke /\ Broke') => pc = "check"]_vars
  /\ [][(pc \in InLoopBody /\ pc' \notin (InLoopBody \cup {"check"}))
          => (pc' = "aexit" /\ exc' # "none")]_vars
  /\ [][(pc = "recv" /\ pulled' > pulled /\ exc' = "none")
          => pc' \in {"burst", "flush"}]_vars

\* The duration limit expired during the wait for a message, and the
\* message's burst of two was written all the same.
C17_Witness ==
  /\ pc = "sleep"
  /\ cfg.duration # None
  /\ DurationReached(cfg.duration, now, start)
  /\ ~DurationReached(cfg.duration, lastCheck, start)
  /\ cfg.burst = 2
  /\ pulled = 1
  /\ sent = 2

\* C18: one delay of `rate` follows each burst: the flush of a burst is
\* followed by the delay, the delay by a stop check, a stop check is
\* preceded by the delay (or, for the first one, by the opening of the
\* subscription), a message is asked for after a stop check only, and no
\* time goes by between two orders of a burst; so a stop check comes no
\* earlier than `rate` per update consumed after start, and the check that
\* ends the run, and EXIT, no earlier than `rate` after the check before it.
C18_OneDelayPerBurst ==
  /\ [][(pc = "flush" /\ exc' = "none") => pc' = "sleep"]_vars
  /\ [][pc = "sleep" => (pc' = "check" /\ now' = now + cfg.rate)]_vars
  /\ [][(pc' = "check" /\ pc # "check") => pc \in {"sleep", "start"}]_vars
  /\ [][(pc' = "recv" /\ pc # "recv") => pc = "check"]_vars
  /\ [][pc = "burst" => now' = now]_vars
  /\ [](pc = "check" => now - start >= pulled * cfg.rate)
  /\ []((Broke /\ pulled > 0) => brokeAt - lastCheck >= cfg.rate)
  /\ []((exitAt # None /\ pulled > 0) => exitAt - lastCheck >= cfg.rate)

\* EXIT written after two bursts and two delays of one tick.
C18_Witness ==
  /\ exitAt # None
  /\ cfg.rate = 1
  /\ pulled = 2
  /\ exitAt - start >= 2

\* The conditions of C19, for a run the model can carry to its end.
CountRun ==
  /\ cfg.limit # None
  /\ cfg.limit >= 1
  /\ cfg.burst >= 1
  /\ cfg.duration = None
  /\ CeilMultiple(cfg.limit, cfg.burst) <= cfg.burst * MaxPulls

\* The run is over, EXIT written last, after ceil(N / B) updates and
\* B * ceil(N / B) order lines.
CountRunDone ==
  /\ CountRun
  /\ pc = "done"
  /\ outcome = "ok"
  /\ EndsWithOneExit(out)
  /\ cfg.burst * pulled = CeilMultiple(cfg.limit, cfg.burst)
  /\ Cardinality(Orders(out)) = CeilMultiple(cfg.limit, cfg.burst)

\* C19: with a count limit N >= 1, a burst size B >= 1 and no duration
\* limit, a run in which nothing fails comes to its end: EXIT is written,
\* ceil(N / B) updates having been consumed and B * ceil(N / B) order lines
\* written.
C19_Terminates == CountRun ~> CountRunDone

\* Limit 3, burst 2: the run ended after 2 updates and 4 order lines.
C19_Witness ==
  /\ CountRunDone
  /\ cfg.limit = 3
  /\ cfg.burst = 2
  /\ pulled = 2

====
